---- MODULE Spec2Model ----
(***************************************************************************)
(* Model of app.py: the complaint-extraction and template-filling tool.    *)
(*                                                                         *)
(* Text is a sequence of one-character strings, so that substring search,  *)
(* str.replace, str.strip and run boundaries are computed character by     *)
(* character.  A document is a sequence of blocks; a block is a paragraph  *)
(* (a sequence of runs, each a text) or a table (rows of cells, each cell  *)
(* again a sequence of blocks, which is how a nested table arises).        *)
(***************************************************************************)
EXTENDS Integers, Sequences, FiniteSets, TLC

VARIABLES
    pc,             \* which operation has acted: "start", "filled", "called", "session"
    template,       \* parsed template.docx, or Corrupt
    data,           \* the Lawsuit handed to generate_docx
    generated,      \* return value of generate_docx: a document, or NoBytes
    file_path,      \* argument of extract_lawsuit_data
    file_doc,       \* what docx.Document(file_path) finds: a document, or Corrupt
    api_key,        \* argument of extract_lawsuit_data / effective key of the script
    backend,        \* what the model backend answered in the latest real call
    call,           \* outcome of the latest extract_lawsuit_data call
    env_key,        \* os.getenv("DASHSCOPE_API_KEY")
    key_input,      \* value of the API-key text input
    uploaded_file,  \* value of the file uploader: a document, Corrupt, or NoUpload
    extracted_data, \* st.session_state.extracted_data
    cache,          \* st.cache_data store of extract_lawsuit_data
    event,          \* the widget interaction that triggered the latest script run
    body_runs,      \* how often the body of extract_lawsuit_data has executed
    llm_calls,      \* how often the model backend has been contacted
    origin          \* history: the upload whose extraction produced `call`

vars == <<pc, template, data, generated, file_path, file_doc, api_key, backend,
          call, env_key, key_input, uploaded_file, extracted_data, cache, event,
          body_runs, llm_calls, origin>>

fillVars == <<template, data, generated>>
callVars == <<file_path, file_doc, api_key, backend, call>>
sessVars == <<env_key, key_input, uploaded_file, extracted_data, cache, event,
              body_runs, llm_calls, origin>>

----------------------------------------------------------------------------
(* Text primitives                                                          *)

None == <<"None">>          \* Python None for an Optional[str] leaf
EmptyText == <<>>

RECURSIVE Concat(_)
Concat(ss) == IF ss = <<>> THEN <<>> ELSE Head(ss) \o Concat(Tail(ss))

\* Python `k in s` for a non-empty k
Contains(s, k) ==
    \E i \in 1..(Len(s) - Len(k) + 1) : SubSeq(s, i, i + Len(k) - 1) = k

\* Python s.find(k) + 1 for a k that occurs in s
FirstAt(s, k) ==
    CHOOSE i \in 1..(Len(s) - Len(k) + 1) :
        /\ SubSeq(s, i, i + Len(k) - 1) = k
        /\ \A j \in 1..(i - 1) : SubSeq(s, j, j + Len(k) - 1) # k

\* Python s.replace(k, v): leftmost non-overlapping occurrences, one pass
RECURSIVE Replace(_, _, _)
Replace(s, k, v) ==
    IF ~Contains(s, k) THEN s
    ELSE SubSeq(s, 1, FirstAt(s, k) - 1) \o v
            \o Replace(SubSeq(s, FirstAt(s, k) + Len(k), Len(s)), k, v)

Whitespace == {" ", "\n", "\t"}

RECURSIVE LStrip(_)
LStrip(s) == IF s # <<>> /\ Head(s) \in Whitespace THEN LStrip(Tail(s)) ELSE s

RECURSIVE RStrip(_)
RStrip(s) ==
    IF s # <<>> /\ s[Len(s)] \in Whitespace THEN RStrip(SubSeq(s, 1, Len(s) - 1)) ELSE s

\* Python s.strip()
Strip(s) == RStrip(LStrip(s))

\* Python "\n".join(parts)
RECURSIVE JoinNL(_)
JoinNL(parts) ==
    IF parts = <<>> THEN <<>>
    ELSE IF Len(parts) = 1 THEN parts[1]
    ELSE parts[1] \o <<"\n">> \o JoinNL(Tail(parts))

----------------------------------------------------------------------------
(* Documents (python-docx object graph)                                     *)

Corrupt == [kind |-> "corrupt"]     \* a file docx.Document() cannot open
NoBytes == [kind |-> "None"]        \* generate_docx returned None

Doc(blocks) == [kind |-> "doc", blocks |-> blocks]
Para(runs) == [kind |-> "p", runs |-> runs]
Cell(blocks) == [blocks |-> blocks]
Tbl(rows) == [kind |-> "t", rows |-> rows]

\* paragraph.text: the run texts concatenated
ParaText(p) == Concat(p.runs)

IsPara(b) == b.kind = "p"
IsTbl(b) == b.kind = "t"

\* doc.paragraphs / cell.paragraphs: the paragraphs that are direct children
paragraphs(blocks) == SelectSeq(blocks, IsPara)
\* doc.tables: the tables that are direct children of the body
tables(blocks) == SelectSeq(blocks, IsTbl)

\* row.cells of every row of a table, in row then cell order
RECURSIVE cells(_)
cells(rows) == IF rows = <<>> THEN <<>> ELSE Head(rows) \o cells(Tail(rows))

RECURSIVE ParaTexts(_)
ParaTexts(ps) == IF ps = <<>> THEN <<>> ELSE <<ParaText(Head(ps))>> \o ParaTexts(Tail(ps))

\* cell.text: the texts of the cell's own paragraphs joined by newline
CellText(c) == JoinNL(ParaTexts(paragraphs(c.blocks)))

----------------------------------------------------------------------------
(* Schema: PartyInfo and Lawsuit                                            *)

PartyFields == <<"name", "gender", "ethnicity", "dob", "address", "id_card", "contact">>

PartyInfo(name, gender, ethnicity, dob, address, id_card, contact) ==
    [name |-> name, gender |-> gender, ethnicity |-> ethnicity, dob |-> dob,
     address |-> address, id_card |-> id_card, contact |-> contact]

Lawsuit(plaintiff, defendant, claims, facts_and_reasons, court_name, date) ==
    [plaintiff |-> plaintiff, defendant |-> defendant, claims |-> claims,
     facts_and_reasons |-> facts_and_reasons, court_name |-> court_name, date |-> date]

NumLeaves == 18

\* the i-th leaf field of a Lawsuit, in the order of the replacements dict
Leaf(d, i) ==
    IF i <= 7 THEN d.plaintiff[PartyFields[i]]
    ELSE IF i <= 14 THEN d.defendant[PartyFields[i - 7]]
    ELSE IF i = 15 THEN d.claims
    ELSE IF i = 16 THEN d.facts_and_reasons
    ELSE IF i = 17 THEN d.court_name
    ELSE d.date

----------------------------------------------------------------------------
(* Placeholder tokens                                                       *)

Open == <<"{", "{">>
Close == <<"}", "}">>
Underscore == <<"_">>

PlaintiffChars == <<"p", "l", "a", "i", "n", "t", "i", "f", "f">>
DefendantChars == <<"d", "e", "f", "e", "n", "d", "a", "n", "t">>

FieldChars ==
    [name |-> <<"n", "a", "m", "e">>,
     gender |-> <<"g", "e", "n", "d", "e", "r">>,
     ethnicity |-> <<"e", "t", "h", "n", "i", "c", "i", "t", "y">>,
     dob |-> <<"d", "o", "b">>,
     address |-> <<"a", "d", "d", "r", "e", "s", "s">>,
     id_card |-> <<"i", "d", "_", "c", "a", "r", "d">>,
     contact |-> <<"c", "o", "n", "t", "a", "c", "t">>]

ClaimsChars == <<"c", "l", "a", "i", "m", "s">>
FactsChars == <<"f", "a", "c", "t", "s", "_", "a", "n", "d", "_", "r", "e", "a", "s", "o", "n", "s">>
CourtChars == <<"c", "o", "u", "r", "t", "_", "n", "a", "m", "e">>
DateChars == <<"d", "a", "t", "e">>

\* the 18 dict keys "{{plaintiff_name}}" ... "{{date}}", in insertion order
Keys ==
    [i \in 1..NumLeaves |->
        IF i <= 7 THEN Open \o PlaintiffChars \o Underscore \o FieldChars[PartyFields[i]] \o Close
        ELSE IF i <= 14 THEN Open \o DefendantChars \o Underscore \o FieldChars[PartyFields[i - 7]] \o Close
        ELSE IF i = 15 THEN Open \o ClaimsChars \o Close
        ELSE IF i = 16 THEN Open \o FactsChars \o Close
        ELSE IF i = 17 THEN Open \o CourtChars \o Close
        ELSE Open \o DateChars \o Close]

\* Python `x or ""` on an Optional[str]
OrEmpty(x) == IF x = None \/ x = EmptyText THEN EmptyText ELSE x

\* the replacements dict, as the sequence of its items
replacements(d) ==
    [i \in 1..NumLeaves |-> [key |-> Keys[i], value |-> OrEmpty(Leaf(d, i))]]

----------------------------------------------------------------------------
(* generate_docx                                                            *)

\* a variant that substitutes in the joined paragraph text and keeps one run
ReplaceInRunsMerged(runs, key, value) ==
    [i \in DOMAIN runs |->
        IF i = 1 THEN Replace(Concat(runs), key, value) ELSE EmptyText]

\* for i in range(len(inline)): if key in inline[i].text: inline[i].text = ...
ReplaceInRuns(runs, key, value) ==
    [i \in DOMAIN runs |->
        IF Contains(runs[i], key) THEN Replace(runs[i], key, value) ELSE runs[i]]

\* a variant without the paragraph-level membership test, assigning
\* paragraph.text, which leaves the paragraph with a single run
ParaPassWholeText(p, key, value) ==
    [p EXCEPT !.runs = <<Replace(ParaText(p), key, value)>>]

\* one (key, value) iteration on one paragraph: if key in para.text: ...
ParaPass(p, key, value) ==
    IF Contains(ParaText(p), key)
    THEN [p EXCEPT !.runs = ReplaceInRuns(p.runs, key, value)]
    ELSE p

\* for key, value in replacements.items(), from the i-th item on; a
\* paragraph without runs has nothing to scan
RECURSIVE PassesFrom(_, _, _)
PassesFrom(p, repl, i) ==
    IF i > Len(repl) \/ p.runs = <<>> THEN p
    ELSE PassesFrom(ParaPass(p, repl[i].key, repl[i].value), repl, i + 1)

FillPara(p, repl) == PassesFrom(p, repl, 1)

\* for para in cell.paragraphs: only the cell's own paragraphs are visited
FillCell(c, repl) ==
    [blocks |->
        [j \in DOMAIN c.blocks |->
            IF IsPara(c.blocks[j]) THEN FillPara(c.blocks[j], repl) ELSE c.blocks[j]]]

\* for table in doc.tables: for row in table.rows: for cell in row.cells
FillTable(t, repl) ==
    [t EXCEPT !.rows =
        [r \in DOMAIN t.rows |->
            [k \in DOMAIN t.rows[r] |-> FillCell(t.rows[r][k], repl)]]]

\* generate_docx(data, template_path): the saved document, or NoBytes when
\* docx.Document raises.  The two loops (doc.paragraphs, then doc.tables) act
\* on disjoint blocks, so they are applied block by block.
generate_docx(d, tpl) ==
    IF tpl.kind = "corrupt" THEN NoBytes
    ELSE Doc([j \in DOMAIN tpl.blocks |->
                IF IsPara(tpl.blocks[j]) THEN FillPara(tpl.blocks[j], replacements(d))
                ELSE FillTable(tpl.blocks[j], replacements(d))])

----------------------------------------------------------------------------
(* Inputs of generate_docx                                                  *)

MaxBlocks == 2      \* longest template assembled freely from ExtraBlocks

Letters == <<"a", "b", "c", "d", "e", "f", "g", "h", "i", "j", "k", "l",
             "m", "n", "o", "p", "q", "r">>

DefaultLeaf(i) == <<"#", Letters[i]>>

FullRecord ==
    Lawsuit(
        PartyInfo(DefaultLeaf(1), DefaultLeaf(2), DefaultLeaf(3), DefaultLeaf(4),
                  DefaultLeaf(5), DefaultLeaf(6), DefaultLeaf(7)),
        PartyInfo(DefaultLeaf(8), DefaultLeaf(9), DefaultLeaf(10), DefaultLeaf(11),
                  DefaultLeaf(12), DefaultLeaf(13), DefaultLeaf(14)),
        DefaultLeaf(15), DefaultLeaf(16), DefaultLeaf(17), DefaultLeaf(18))

\* records handed to generate_docx: claims and facts_and_reasons are str,
\* the other leaves Optional[str]
DataSet ==
    { [FullRecord EXCEPT !.plaintiff.name = n, !.claims = c, !.date = d] :
        n \in {DefaultLeaf(1), None, Keys[18]},
        c \in {DefaultLeaf(15), EmptyText, Keys[18]},
        d \in {DefaultLeaf(18), None, Keys[1]} }

\* a template holding every token, each inside one run, in body paragraphs
\* and in the cells of a body table
BaseBlocks ==
    << Para(<< <<"N", ":">> \o Keys[1], Keys[2] \o <<",">> \o Keys[3], Keys[4] >>),
       Para(<< Keys[5], Keys[6], Keys[7] >>),
       Tbl(<< << Cell(<< Para(<< Keys[8], Keys[9] >>) >>),
                 Cell(<< Para(<< Keys[10] \o Keys[11] >>), Para(<< Keys[12] >>) >>) >>,
              << Cell(<< Para(<< Keys[13], Keys[14] >>) >>) >> >>),
       Para(<< Keys[15] >>),
       Para(<< Keys[16] >>),
       Para(<< Keys[17], <<" ">>, Keys[18] >>) >>

PlainPara == Para(<< <<"h", "i">>, <<"!">> >>)
SplitPara == Para(<< SubSeq(Keys[1], 1, 7), SubSeq(Keys[1], 8, Len(Keys[1])) >>)
ThreeRunSplitPara == Para(<< <<"{">>, SubSeq(Keys[18], 2, 7), <<"}">> >>)
BaitPara == Para(<< Keys[15] \o SubSeq(Keys[18], 1, 4), SubSeq(Keys[18], 5, 8) >>)
UnknownTokenPara == Para(<< Open \o <<"x">> \o Close >>)
TokenPara == Para(<< <<"a">>, Keys[18], <<"b">> >>)
TwicePara == Para(<< Keys[1] \o Keys[1], <<"c">> >>)
SplitInCellTable ==
    Tbl(<< << Cell(<< Para(<< SubSeq(Keys[18], 1, 3), SubSeq(Keys[18], 4, 8) >>) >>),
              Cell(<< Para(<< <<"z">> >>) >>) >> >>)
NestedTable ==
    Tbl(<< << Cell(<< Para(<< Keys[17] >>),
                      Tbl(<< << Cell(<< Para(<< <<"D", ":">> \o Keys[18] >>) >>) >> >>) >>) >> >>)

ExtraBlocks ==
    { PlainPara, SplitPara, ThreeRunSplitPara, BaitPara, UnknownTokenPara,
      TokenPara, TwicePara, SplitInCellTable, NestedTable }

SeqsUpTo(S, n) == UNION { [1..m -> S] : m \in 1..n }

TemplateSet ==
    {Corrupt} \cup { Doc(bs) : bs \in SeqsUpTo(ExtraBlocks, MaxBlocks) }
              \cup {Doc(BaseBlocks)} \cup { Doc(BaseBlocks \o <<x>>) : x \in ExtraBlocks }

----------------------------------------------------------------------------
(* Idle values of the variables an operation does not use                   *)

NoUpload == [kind |-> "NoUpload"]
NoData == [kind |-> "None"]            \* Python None where a Lawsuit may stand
NoCall == [ret |-> NoData, err |-> "", raised |-> FALSE, parts |-> <<>>,
           content |-> <<>>, contacted |-> FALSE]

FillIdle ==
    /\ template = Corrupt /\ data = FullRecord /\ generated = NoBytes
CallIdle ==
    /\ file_path = <<>> /\ file_doc = Corrupt /\ api_key = <<>>
    /\ backend = [kind |-> "none"] /\ call = NoCall
SessIdle ==
    /\ env_key = <<>> /\ key_input = <<>> /\ uploaded_file = NoUpload
    /\ extracted_data = NoData /\ cache = {} /\ event = "none"
    /\ body_runs = 0 /\ llm_calls = 0 /\ origin = NoUpload

----------------------------------------------------------------------------
(* Specification of generate_docx as a pure function                        *)

InitFill ==
    /\ pc = "start"
    /\ template \in TemplateSet
    /\ data \in DataSet
    /\ generated = NoBytes
    /\ CallIdle /\ SessIdle

Fill ==
    /\ pc = "start"
    /\ generated' = generate_docx(data, template)
    /\ pc' = "filled"
    /\ UNCHANGED <<template, data>>
    /\ UNCHANGED callVars
    /\ UNCHANGED sessVars

NextFill == Fill

SpecFill == InitFill /\ [][NextFill]_vars

----------------------------------------------------------------------------
(* Vocabulary of the properties of generate_docx                            *)

\* every paragraph of a document, at any nesting depth, in a fixed order;
\* generate_docx keeps the block structure, so positions correspond
RECURSIVE AllParas(_)
RECURSIVE CellsParas(_)
AllParas(bs) ==
    IF bs = <<>> THEN <<>>
    ELSE (IF IsPara(Head(bs)) THEN <<Head(bs)>> ELSE CellsParas(cells(Head(bs).rows)))
         \o AllParas(Tail(bs))
CellsParas(cs) ==
    IF cs = <<>> THEN <<>> ELSE AllParas(Head(cs).blocks) \o CellsParas(Tail(cs))

DocText(doc) == JoinNL(ParaTexts(AllParas(doc.blocks)))

RECURSIVE Occ(_, _)
Occ(s, k) ==
    IF Len(s) < Len(k) THEN 0
    ELSE IF SubSeq(s, 1, Len(k)) = k
         THEN 1 + Occ(SubSeq(s, Len(k) + 1, Len(s)), k)
         ELSE Occ(Tail(s), k)

RECURSIVE RunsOcc(_, _)
RunsOcc(runs, k) ==
    IF runs = <<>> THEN 0 ELSE Occ(Head(runs), k) + RunsOcc(Tail(runs), k)

TemplateParas == AllParas(template.blocks)
GeneratedParas == AllParas(generated.blocks)

Filled == pc = "filled" /\ template.kind = "doc"

\* every token is in the template, and every occurrence lies inside one run
TokensInSingleRuns ==
    /\ \A i \in 1..NumLeaves :
          \E n \in DOMAIN TemplateParas :
             \E r \in DOMAIN TemplateParas[n].runs :
                Contains(TemplateParas[n].runs[r], Keys[i])
    /\ \A i \in 1..NumLeaves :
          \A n \in DOMAIN TemplateParas :
             Occ(ParaText(TemplateParas[n]), Keys[i])
                = RunsOcc(TemplateParas[n].runs, Keys[i])

DistinctNonEmpty(d) ==
    /\ \A i \in 1..NumLeaves : Leaf(d, i) # None /\ Leaf(d, i) # EmptyText
    /\ \A i, j \in 1..NumLeaves : i # j => Leaf(d, i) # Leaf(d, j)

BraceFree(d) ==
    \A i \in 1..NumLeaves :
        \A c \in 1..Len(Leaf(d, i)) : Leaf(d, i)[c] \notin {"{", "}"}

\* the token is in the paragraph's text, but in no single run
SplitIn(p, k) ==
    /\ Contains(ParaText(p), k)
    /\ \A r \in DOMAIN p.runs : ~Contains(p.runs[r], k)

\* an occurrence of k starts m characters before the end of run a and
\* continues into the following runs
Spans(runs, k, a, m) ==
    /\ a \in DOMAIN runs
    /\ m \in 1..Len(runs[a])
    /\ m < Len(k)
    /\ LET rest == SubSeq(runs[a], Len(runs[a]) - m + 1, Len(runs[a]))
                      \o Concat(SubSeq(runs, a + 1, Len(runs)))
       IN  Len(rest) >= Len(k) /\ SubSeq(rest, 1, Len(k)) = k

NoTokenIn(s) == \A j \in 1..NumLeaves : ~Contains(s, Keys[j])

----------------------------------------------------------------------------
(* Properties of generate_docx                                              *)

\* C1: when every one of the 18 tokens occurs in the template wholly inside
\* single runs and the 18 leaf values are distinct and non-empty, the
\* generated document's text holds every value and none of the tokens.
C1_RoundTrip ==
    (Filled /\ TokensInSingleRuns /\ DistinctNonEmpty(data)) =>
        /\ generated.kind = "doc"
        /\ \A i \in 1..NumLeaves :
              /\ Contains(DocText(generated), Leaf(data, i))
              /\ ~Contains(DocText(generated), Keys[i])

\* C2: a leaf that is None is mapped to the empty string, no run that held
\* its token whole still holds it after generate_docx, and a document is
\* returned.
C2_AbsentField ==
    Filled =>
        /\ generated.kind = "doc"
        /\ \A i \in 1..NumLeaves :
              Leaf(data, i) = None =>
                 /\ replacements(data)[i].value = EmptyText
                 /\ \A n \in DOMAIN TemplateParas :
                       \A r \in DOMAIN TemplateParas[n].runs :
                          Contains(TemplateParas[n].runs[r], Keys[i])
                             => ~Contains(GeneratedParas[n].runs[r], Keys[i])

\* C3: a token that is in a paragraph's text but in no single run is not
\* substituted: generate_docx returns a document, the paragraph's text still
\* holds the token, the occurrence still straddles the same run boundary,
\* and when no run of the paragraph holds any whole token all runs are as
\* they were.
C3_RunSplitGap ==
    Filled =>
        \A n \in DOMAIN TemplateParas :
           \A i \in 1..NumLeaves :
              SplitIn(TemplateParas[n], Keys[i]) =>
                 /\ generated.kind = "doc"
                 /\ Contains(ParaText(GeneratedParas[n]), Keys[i])
                 /\ \A a \in DOMAIN TemplateParas[n].runs :
                       \A m \in 1..Len(Keys[i]) :
                          Spans(TemplateParas[n].runs, Keys[i], a, m)
                             => Spans(GeneratedParas[n].runs, Keys[i], a, m)
                 /\ (\A r \in DOMAIN TemplateParas[n].runs :
                        NoTokenIn(TemplateParas[n].runs[r]))
                       => GeneratedParas[n].runs = TemplateParas[n].runs

C3_Witness ==
    /\ Filled
    /\ generated.kind = "doc"
    /\ \E n \in DOMAIN TemplateParas :
          /\ SplitIn(TemplateParas[n], Keys[1])
          /\ Len(TemplateParas[n].runs) = 2
          /\ GeneratedParas[n].runs = TemplateParas[n].runs

\* C4: a paragraph whose text holds no token keeps its runs, and in any
\* paragraph a run that holds no whole token keeps its text.
C4_UnrecognizedUntouched ==
    Filled =>
        /\ generated.kind = "doc"
        /\ Len(GeneratedParas) = Len(TemplateParas)
        /\ \A n \in DOMAIN TemplateParas :
              /\ NoTokenIn(ParaText(TemplateParas[n]))
                    => GeneratedParas[n].runs = TemplateParas[n].runs
              /\ Len(GeneratedParas[n].runs) = Len(TemplateParas[n].runs)
              /\ \A r \in DOMAIN TemplateParas[n].runs :
                    NoTokenIn(TemplateParas[n].runs[r])
                       => GeneratedParas[n].runs[r] = TemplateParas[n].runs[r]

C4_Witness ==
    /\ Filled
    /\ generated.kind = "doc"
    /\ \E n \in DOMAIN TemplateParas :
          \E r, q \in DOMAIN TemplateParas[n].runs :
             /\ GeneratedParas[n].runs[r] # TemplateParas[n].runs[r]
             /\ NoTokenIn(TemplateParas[n].runs[q])
             /\ TemplateParas[n].runs[q] # EmptyText
    /\ \E n \in DOMAIN TemplateParas :
          /\ NoTokenIn(ParaText(TemplateParas[n]))
          /\ \E r \in DOMAIN TemplateParas[n].runs :
                \E c \in 1..Len(TemplateParas[n].runs[r]) :
                   TemplateParas[n].runs[r][c] = "{"

\* C9: in every paragraph of the template, at the top level and in table
\* cells at any nesting depth, a token lying wholly inside a run is replaced
\* by its value.  Stated for values without braces, where the value put in
\* place of a token cannot be rewritten by a later pass, so that the
\* replacement shows in the result: the run no longer holds the token and
\* holds the value.
C9_NestedTraversal ==
    (Filled /\ BraceFree(data)) =>
        /\ generated.kind = "doc"
        /\ \A n \in DOMAIN TemplateParas :
              \A r \in DOMAIN TemplateParas[n].runs :
                 \A i \in 1..NumLeaves :
                    Contains(TemplateParas[n].runs[r], Keys[i]) =>
                       /\ ~Contains(GeneratedParas[n].runs[r], Keys[i])
                       /\ Contains(GeneratedParas[n].runs[r], OrEmpty(Leaf(data, i)))

----------------------------------------------------------------------------
(* extract_lawsuit_data: document loading and text linearisation            *)

DotDocx == <<".", "d", "o", "c", "x">>

ToLower(c) ==
    CASE c = "D" -> "d" [] c = "O" -> "o" [] c = "C" -> "c" [] c = "X" -> "x"
      [] OTHER -> c

\* Python s.lower()
Lower(s) == [i \in DOMAIN s |-> ToLower(s[i])]

\* Python s.endswith(suffix)
EndsWith(s, suffix) ==
    /\ Len(s) >= Len(suffix)
    /\ SubSeq(s, Len(s) - Len(suffix) + 1, Len(s)) = suffix

\* text = x.strip(); if text: parts.append(text), over a list of texts
RECURSIVE KeepStripped(_)
KeepStripped(texts) ==
    IF texts = <<>> THEN <<>>
    ELSE (IF Strip(Head(texts)) # EmptyText THEN <<Strip(Head(texts))>> ELSE <<>>)
         \o KeepStripped(Tail(texts))

RECURSIVE CellTexts(_)
CellTexts(cs) == IF cs = <<>> THEN <<>> ELSE <<CellText(Head(cs))>> \o CellTexts(Tail(cs))

\* cell.text of every cell, table by table, row by row
RECURSIVE TablesCellTexts(_)
TablesCellTexts(ts) ==
    IF ts = <<>> THEN <<>>
    ELSE CellTexts(cells(Head(ts).rows)) \o TablesCellTexts(Tail(ts))

\* a variant that walks the body in document order
RECURSIVE PartsInDocumentOrder(_)
PartsInDocumentOrder(doc) ==
    IF doc.blocks = <<>> THEN <<>>
    ELSE (IF IsPara(Head(doc.blocks))
          THEN KeepStripped(<<ParaText(Head(doc.blocks))>>)
          ELSE KeepStripped(CellTexts(cells(Head(doc.blocks).rows))))
         \o PartsInDocumentOrder(Doc(Tail(doc.blocks)))

\* the list `parts` after the two loops
ExtractParts(doc) ==
    KeepStripped(ParaTexts(paragraphs(doc.blocks)))
        \o KeepStripped(TablesCellTexts(tables(doc.blocks)))

----------------------------------------------------------------------------
(* extract_lawsuit_data: the model backend and the output parser            *)

JNull == [kind |-> "null"]
JStr(t) == [kind |-> "str", s |-> t]
JObj(f) == [kind |-> "obj", fields |-> f]
Malformed == [kind |-> "malformed"]       \* a reply that is not JSON

Has(j, f) == f \in DOMAIN j.fields

\* an Optional[str] field with default None
OptionalStrOK(j, f) == Has(j, f) => j.fields[f].kind \in {"null", "str"}
OptionalStr(j, f) ==
    IF Has(j, f) /\ j.fields[f].kind = "str" THEN j.fields[f].s ELSE None

\* a required str field
RequiredStrOK(j, f) == Has(j, f) /\ j.fields[f].kind = "str"

PartyOK(j) ==
    /\ j.kind = "obj"
    /\ \A i \in DOMAIN PartyFields : OptionalStrOK(j, PartyFields[i])

ParseParty(j) ==
    PartyInfo(OptionalStr(j, "name"), OptionalStr(j, "gender"),
              OptionalStr(j, "ethnicity"), OptionalStr(j, "dob"),
              OptionalStr(j, "address"), OptionalStr(j, "id_card"),
              OptionalStr(j, "contact"))

\* a variant in which claims and facts_and_reasons are Optional[str]
LawsuitOKLenient(j) ==
    /\ j.kind = "obj"
    /\ Has(j, "plaintiff") /\ PartyOK(j.fields["plaintiff"])
    /\ Has(j, "defendant") /\ PartyOK(j.fields["defendant"])
    /\ OptionalStrOK(j, "claims")
    /\ OptionalStrOK(j, "facts_and_reasons")
    /\ OptionalStrOK(j, "court_name")
    /\ OptionalStrOK(j, "date")

\* validation of a reply against the Lawsuit model
LawsuitOK(j) ==
    /\ j.kind = "obj"
    /\ Has(j, "plaintiff") /\ PartyOK(j.fields["plaintiff"])
    /\ Has(j, "defendant") /\ PartyOK(j.fields["defendant"])
    /\ RequiredStrOK(j, "claims")
    /\ RequiredStrOK(j, "facts_and_reasons")
    /\ OptionalStrOK(j, "court_name")
    /\ OptionalStrOK(j, "date")

ParseLawsuit(j) ==
    Lawsuit(ParseParty(j.fields["plaintiff"]), ParseParty(j.fields["defendant"]),
            OptionalStr(j, "claims"), OptionalStr(j, "facts_and_reasons"),
            OptionalStr(j, "court_name"), OptionalStr(j, "date"))

FullParty(tag) ==
    JObj([name |-> JStr(<<tag, "1">>), gender |-> JStr(<<tag, "2">>),
          ethnicity |-> JStr(<<tag, "3">>), dob |-> JStr(<<tag, "4">>),
          address |-> JStr(<<tag, "5">>), id_card |-> JStr(<<tag, "6">>),
          contact |-> JStr(<<tag, "7">>)])

FullReply ==
    JObj([plaintiff |-> FullParty("P"), defendant |-> FullParty("D"),
          claims |-> JStr(<<"c">>), facts_and_reasons |-> JStr(<<"f">>),
          court_name |-> JStr(<<"k">>), date |-> JNull])
SparseReply ==
    JObj([plaintiff |-> JObj([name |-> JStr(<<"n">>), gender |-> JNull]),
          defendant |-> JObj([name |-> JNull]),
          claims |-> JStr(<<"c", "2">>), facts_and_reasons |-> JStr(EmptyText)])
NoClaimsReply ==
    JObj([plaintiff |-> FullParty("P"), defendant |-> FullParty("D"),
          facts_and_reasons |-> JStr(<<"f">>), court_name |-> JStr(<<"k">>)])
NullClaimsReply ==
    JObj([plaintiff |-> FullParty("P"), defendant |-> FullParty("D"),
          claims |-> JNull, facts_and_reasons |-> JStr(<<"f">>)])
NullPartyReply ==
    JObj([plaintiff |-> JNull, defendant |-> FullParty("D"),
          claims |-> JStr(<<"c">>), facts_and_reasons |-> JStr(<<"f">>)])
BadTypeReply ==
    JObj([plaintiff |-> FullParty("P"), defendant |-> FullParty("D"),
          claims |-> JStr(<<"c">>), facts_and_reasons |-> JStr(<<"f">>),
          court_name |-> JObj([name |-> JStr(<<"k">>)])])

Replies ==
    { FullReply, SparseReply, NoClaimsReply, NullClaimsReply, NullPartyReply,
      BadTypeReply, Malformed }

NetworkError == [kind |-> "ConnectionError"]
AuthError == [kind |-> "AuthenticationError"]
NoReply == [kind |-> "none"]

GoodKey == <<"k", "1">>
BadKey == <<"k", "2">>

\* what the backend may answer to a request made with the given key
BackendOutcomes(key) ==
    IF key = GoodKey THEN Replies \cup {NetworkError} ELSE {AuthError, NetworkError}

\* except Exception: every exception the try block raises is an Exception
Catches(exc) ==
    exc \in {"ValueError", "PackageNotFoundError", "ConnectionError",
             "AuthenticationError", "OutputParserException"}

\* the body of the try block: the exception it raises ("" when none), the
\* value it returns, and how far it got
TryBlock(path, doc, key, outcome) ==
    IF ~EndsWith(Lower(path), DotDocx)
    THEN [exc |-> "ValueError", value |-> NoData, parts |-> <<>>,
          content |-> <<>>, contacted |-> FALSE]
    ELSE IF doc.kind = "corrupt"
    THEN [exc |-> "PackageNotFoundError", value |-> NoData, parts |-> <<>>,
          content |-> <<>>, contacted |-> FALSE]
    ELSE LET parts == ExtractParts(doc)
             content == JoinNL(parts)
         IN  IF outcome.kind \in {"ConnectionError", "AuthenticationError"}
             THEN [exc |-> outcome.kind, value |-> NoData, parts |-> parts,
                   content |-> content, contacted |-> TRUE]
             ELSE IF ~LawsuitOK(outcome)
             THEN [exc |-> "OutputParserException", value |-> NoData,
                   parts |-> parts, content |-> content, contacted |-> TRUE]
             ELSE [exc |-> "", value |-> ParseLawsuit(outcome), parts |-> parts,
                   content |-> content, contacted |-> TRUE]

\* one execution of the function body
extract_lawsuit_data(path, doc, key, outcome) ==
    LET t == TryBlock(path, doc, key, outcome)
    IN  IF t.exc = ""
        THEN [ret |-> t.value, err |-> "", raised |-> FALSE, parts |-> t.parts,
              content |-> t.content, contacted |-> t.contacted]
        ELSE IF Catches(t.exc)
        THEN [ret |-> NoData, err |-> t.exc, raised |-> FALSE, parts |-> t.parts,
              content |-> t.content, contacted |-> t.contacted]
        ELSE [ret |-> NoData, err |-> "", raised |-> TRUE, parts |-> t.parts,
              content |-> t.content, contacted |-> t.contacted]

----------------------------------------------------------------------------
(* Specification of extract_lawsuit_data as a function of its inputs        *)

MaxDocBlocks == 3   \* longest uploaded document assembled from DocBlocks

ParaA == Para(<< <<"A">> >>)
ParaB == Para(<< <<" ", "B">>, <<" ">> >>)
BlankPara == Para(<< <<" ">>, <<"\t">> >>)
TableC == Tbl(<< << Cell(<< Para(<< <<"C">> >>) >>) >> >>)
TableDEF ==
    Tbl(<< << Cell(<< Para(<< <<" ", "D", "\n">> >>) >>), Cell(<< Para(<< <<" ">> >>) >>) >>,
           << Cell(<< Para(<< <<"E">> >>), Para(<< <<"F">> >>), TableC >>) >> >>)

DocBlocks == { ParaA, ParaB, BlankPara, TableC, TableDEF }

UploadDocs == { Doc(bs) : bs \in SeqsUpTo(DocBlocks, MaxDocBlocks) }

LowerDocxPath == <<"a", ".", "d", "o", "c", "x">>
UpperDocxPath == <<"a", ".", "D", "O", "C", "X">>
DocPath == <<"a", ".", "d", "o", "c">>
PathSet == { LowerDocxPath, UpperDocxPath, DocPath }

InitCall ==
    /\ pc = "start"
    /\ file_path \in PathSet
    /\ file_doc \in UploadDocs \cup {Corrupt}
    /\ api_key \in {GoodKey, BadKey}
    /\ backend = NoReply
    /\ call = NoCall
    /\ FillIdle /\ SessIdle

\* one call of extract_lawsuit_data on an empty cache
CallExtract ==
    /\ pc = "start"
    /\ \E outcome \in BackendOutcomes(api_key) :
          /\ call' = extract_lawsuit_data(file_path, file_doc, api_key, outcome)
          /\ backend' = IF call'.contacted THEN outcome ELSE NoReply
    /\ pc' = "called"
    /\ UNCHANGED <<file_path, file_doc, api_key>>
    /\ UNCHANGED fillVars
    /\ UNCHANGED sessVars

NextCall == CallExtract

SpecCall == InitCall /\ [][NextCall]_vars

----------------------------------------------------------------------------
(* Properties of extract_lawsuit_data                                       *)

NonEmpty(t) == t # EmptyText

Blank(t) == \A c \in 1..Len(t) : t[c] \in Whitespace

StrippedParaTexts ==
    [n \in DOMAIN paragraphs(file_doc.blocks) |->
        Strip(ParaText(paragraphs(file_doc.blocks)[n]))]

StrippedCellTexts ==
    [n \in DOMAIN TablesCellTexts(tables(file_doc.blocks)) |->
        Strip(TablesCellTexts(tables(file_doc.blocks))[n])]

\* C5: the text sent to the model is the newline-join of the trimmed
\* non-empty paragraph texts in document order followed by the trimmed
\* non-empty cell texts in table, row, cell order; no part is empty or
\* blank; paragraphs A, B and a one-cell table C give "A\nB\nC" wherever
\* the table stands.
C5_ExtractionOrder ==
    (pc = "called" /\ call.contacted) =>
        /\ call.content = JoinNL(call.parts)
        /\ call.parts = SelectSeq(StrippedParaTexts, NonEmpty)
                           \o SelectSeq(StrippedCellTexts, NonEmpty)
        /\ \A k \in DOMAIN call.parts :
              /\ ~Blank(call.parts[k])
              /\ call.parts[k][1] \notin Whitespace
              /\ call.parts[k][Len(call.parts[k])] \notin Whitespace
        /\ file_doc \in { Doc(<<ParaA, ParaB, TableC>>), Doc(<<ParaA, TableC, ParaB>>),
                          Doc(<<TableC, ParaA, ParaB>>) }
              => call.content = <<"A", "\n", "B", "\n", "C">>

C5_Witness ==
    /\ pc = "called"
    /\ call.contacted
    /\ file_doc = Doc(<<TableDEF, ParaB, ParaA>>)
    /\ call.content = <<"B", "\n", "A", "\n", "D", "\n", "E", "\n", "F">>

StageFailure ==
    \/ file_path \notin { LowerDocxPath, UpperDocxPath }
    \/ file_doc = Corrupt
    \/ backend \in { NetworkError, AuthError, Malformed }
    \/ /\ backend.kind = "obj"
       /\ \/ \E f \in {"plaintiff", "defendant", "claims", "facts_and_reasons"} :
                f \notin DOMAIN backend.fields
          \/ backend.fields["plaintiff"].kind # "obj"
          \/ backend.fields["defendant"].kind # "obj"
          \/ backend.fields["claims"].kind # "str"
          \/ backend.fields["facts_and_reasons"].kind # "str"
          \/ \E f \in {"court_name", "date"} \cap DOMAIN backend.fields :
                backend.fields[f].kind \notin {"null", "str"}

CompleteLawsuit(d) ==
    /\ DOMAIN d = {"plaintiff", "defendant", "claims", "facts_and_reasons",
                   "court_name", "date"}
    /\ \A p \in {"plaintiff", "defendant"} :
          DOMAIN d[p] = {"name", "gender", "ethnicity", "dob", "address",
                         "id_card", "contact"}
    /\ d.claims # None
    /\ d.facts_and_reasons # None

\* C7: whatever stage of extract_lawsuit_data fails, the call does not raise,
\* returns None and reports a message; a Lawsuit is returned only for a reply
\* that validates against the schema, and then it is complete and carries
\* the reply's values.
C7_FailureSurfaces ==
    pc = "called" =>
        /\ ~call.raised
        /\ StageFailure => (call.ret = NoData /\ call.err # "")
        /\ call.ret # NoData =>
              /\ ~StageFailure
              /\ call.err = ""
              /\ CompleteLawsuit(call.ret)
              /\ call.ret.claims = backend.fields["claims"].s
              /\ call.ret.facts_and_reasons = backend.fields["facts_and_reasons"].s

C7_Witness ==
    /\ pc = "called"
    /\ backend = NoClaimsReply
    /\ call.ret = NoData
    /\ call.err = "OutputParserException"
    /\ ~call.raised

----------------------------------------------------------------------------
(* The Streamlit script: one action per widget interaction, each running    *)
(* the whole script once                                                    *)

TempPath == <<"t", "e", "m", "p", "_", "u", "p", "l", "o", "a", "d", "e", "d",
              "_", "f", "i", "l", "e", ".", "d", "o", "c", "x">>

Absent == [kind |-> "absent"]      \* no such file on disk

SessionDocs == { Doc(<<ParaA>>), Doc(<<ParaB, TableC>>), Corrupt }
SessionTemplates == { Absent, Corrupt, Doc(<<TokenPara>>), Doc(<<SplitPara, NestedTable>>) }
KeyInputs == { EmptyText, GoodKey, BadKey }

\* api_key = os.getenv(...); if not api_key: api_key = st.text_input(...)
EffectiveKey(env, input) == IF env # EmptyText THEN env ELSE input

\* a variant that tests the upload only
UploadGuardNoKey(f, key) == f # NoUpload

\* if uploaded_file is not None and api_key:
UploadGuard(f, key) == f # NoUpload /\ key # EmptyText

\* a variant that keeps the record held so far when the call returns None
StoreResultKeepOld(old, ret) == IF ret = NoData THEN old ELSE ret

\* st.session_state.extracted_data = extract_lawsuit_data(...)
StoreResult(old, ret) == ret

\* st.cache_data: the entries stored under the call's arguments
\* (file_path, api_key); the file's content is not part of the key
CacheHits(c, path, key) == { e \in c : e.path = path /\ e.key = key }

\* the values the form hands back: the record shown, with at most one field
\* retyped by the user
Edits == { "keep", "claims", "plaintiff_name", "date" }
FormData(d, edit) ==
    CASE edit = "keep" -> d
      [] edit = "claims" -> [d EXCEPT !.claims = EmptyText]
      [] edit = "plaintiff_name" -> [d EXCEPT !.plaintiff.name = Keys[18]]
      [] edit = "date" -> [d EXCEPT !.date = <<"2", "0">>]

\* lines 184-195: the upload block of one script run
UploadBlock(clicked) ==
    IF UploadGuard(uploaded_file', api_key') /\ clicked
    THEN IF CacheHits(cache, TempPath, api_key') # {}
         THEN \E e \in CacheHits(cache, TempPath, api_key') :
                 /\ call' = e.value
                 /\ origin' = e.src
                 /\ extracted_data' = StoreResult(extracted_data, e.value.ret)
                 /\ UNCHANGED <<cache, body_runs, llm_calls, backend>>
         ELSE \E outcome \in BackendOutcomes(api_key') :
                 /\ call' = extract_lawsuit_data(TempPath, uploaded_file', api_key', outcome)
                 /\ backend' = IF call'.contacted THEN outcome ELSE NoReply
                 /\ origin' = uploaded_file'
                 /\ cache' = cache \cup { [path |-> TempPath, key |-> api_key',
                                           value |-> call', src |-> uploaded_file'] }
                 /\ body_runs' = body_runs + 1
                 /\ llm_calls' = llm_calls + (IF call'.contacted THEN 1 ELSE 0)
                 /\ extracted_data' = StoreResult(extracted_data, call'.ret)
    ELSE UNCHANGED <<call, origin, cache, body_runs, llm_calls, backend, extracted_data>>

\* lines 198-271: the review form of one script run
FormBlock(submitted, edit) ==
    IF extracted_data' # NoData /\ submitted /\ template.kind # "absent"
    THEN /\ data' = FormData(extracted_data', edit)
         /\ generated' = generate_docx(data', template)
    ELSE /\ UNCHANGED <<data, generated>>

\* one run of the script after the widget values have been set
Script(ev, clicked, submitted, edit) ==
    /\ pc = "session"
    /\ event' = ev
    /\ api_key' = EffectiveKey(env_key, key_input')
    /\ UploadBlock(clicked)
    /\ FormBlock(submitted, edit)
    /\ UNCHANGED <<pc, env_key, template, file_path, file_doc>>

InitSession ==
    /\ pc = "session"
    /\ env_key \in { EmptyText, GoodKey }
    /\ key_input = EmptyText
    /\ api_key = env_key
    /\ uploaded_file = NoUpload
    /\ extracted_data = NoData
    /\ cache = {}
    /\ event = "load"
    /\ body_runs = 0 /\ llm_calls = 0 /\ origin = NoUpload
    /\ template \in SessionTemplates
    /\ data = FullRecord /\ generated = NoBytes
    /\ file_path = TempPath /\ file_doc = Absent
    /\ backend = NoReply /\ call = NoCall

\* the user types into the key field, which is shown when the environment
\* holds no key
TypeKey ==
    /\ env_key = EmptyText
    /\ \E k \in KeyInputs : key_input' = k
    /\ UNCHANGED uploaded_file
    /\ Script("key", FALSE, FALSE, "keep")

\* the user uploads a file, replaces it or removes it
Upload ==
    /\ \E f \in SessionDocs \cup {NoUpload} : uploaded_file' = f
    /\ UNCHANGED key_input
    /\ Script("upload", FALSE, FALSE, "keep")

\* the user presses the extraction button shown by the previous run; an edit
\* of the key field pending at that moment is committed with the click
Click ==
    /\ UploadGuard(uploaded_file, api_key)
    /\ \E k \in KeyInputs : key_input' = IF env_key = EmptyText THEN k ELSE key_input
    /\ UNCHANGED uploaded_file
    /\ Script("click", TRUE, FALSE, "keep")

\* the user submits the review form shown by the previous run
Submit ==
    /\ extracted_data # NoData
    /\ UNCHANGED <<key_input, uploaded_file>>
    /\ \E edit \in Edits : Script("submit", FALSE, TRUE, edit)

Next == TypeKey \/ Upload \/ Click \/ Submit

Spec == InitSession /\ [][Next]_vars

----------------------------------------------------------------------------
(* Properties of the session                                                *)

ExtractionAttempted ==
    event' = "click" /\ UploadGuard(uploaded_file', api_key')

\* C6: when an extraction started by the user fails, the record the session
\* holds after the attempt is the record it held before.
C6_FailedExtractionKeepsState ==
    [][(ExtractionAttempted /\ call'.err # "") => extracted_data' = extracted_data]_vars

\* C6 as amended: when an extraction started by the user fails, the session
\* holds None afterwards, whatever record it held before; what it holds
\* after any attempt is None or a complete Lawsuit, and it is a Lawsuit only
\* when the call reported no failure.
C6_FailedExtractionClearsState ==
    [][ExtractionAttempted =>
          /\ call'.err # "" => extracted_data' = NoData
          /\ extracted_data' # NoData =>
                (call'.err = "" /\ CompleteLawsuit(extracted_data'))]_vars

C6_Witness ==
    /\ event = "click"
    /\ UploadGuard(uploaded_file, api_key)
    /\ call.err # ""
    /\ extracted_data = NoData
    /\ \E e \in cache : e.value.ret # NoData

\* C8: a script run in which no API key is available neither executes
\* extract_lawsuit_data nor contacts the backend nor stores a result.
C8_NoKeyNoInvocation ==
    [][api_key' = EmptyText =>
          /\ body_runs' = body_runs
          /\ llm_calls' = llm_calls
          /\ cache' = cache
          /\ call' = call
          /\ extracted_data' = extracted_data]_vars

C8_Witness ==
    /\ event = "click"
    /\ api_key = EmptyText
    /\ uploaded_file # NoUpload
    /\ body_runs = 0 /\ llm_calls = 0

\* C10: after a click that starts an extraction, the outcome the session
\* holds was produced from the document uploaded at that moment.
C10_ResultOfCurrentUpload ==
    (event = "click" /\ UploadGuard(uploaded_file, api_key)) => origin = uploaded_file

====
